---------------------------- MODULE Spec2Model ----------------------------
(***************************************************************************)
(* Telemetry ingestion run of scripts/device_connect_and_parse.py and the  *)
(* session store written by backend/src/app.py.                            *)
(*                                                                         *)
(* The run is one asyncio program.  The main task (main), the flush task   *)
(* (db_writer) and the notification callback (notification_handler) share  *)
(* one event loop, so each action below is the code between two            *)
(* suspension points (await) of one of them.                               *)
(***************************************************************************)
EXTENDS Integers, Sequences, FiniteSets, TLC

VARIABLES
  pc,                  \* position of main()
  session_key,         \* global session_key (line 34)
  current_session_id,  \* global current_session_id (line 33)
  DEVICE_ADDRESS,      \* global DEVICE_ADDRESS (line 26)
  CHAR_UUID,           \* global CHAR_UUID (line 27)
  probe,               \* value find_device is about to return (lines 72, 74)
  link,                \* state of the radio link
  subscribed,          \* a notification callback is registered on the link
  writer_task,         \* state of the task created at line 162
  data_buffer,         \* global data_buffer (line 32)
  sessions,            \* table sessions of the persistence service
  health_data,         \* table health_data of the persistence service
  clock,               \* int(time.time()) at the next decoded frame
  decoded,             \* history: every reading appended, in decode order
  submitted,           \* history: every insert into health_data, with its outcome
  trace,               \* history: link and task events of the run, in order
  frame,               \* history: the frame the callback was last called with
  response             \* what get_data answered last (app.py lines 57, 67)

vars == <<pc, session_key, current_session_id, DEVICE_ADDRESS, CHAR_UUID, probe,
          link, subscribed, writer_task, data_buffer, sessions, health_data,
          clock, decoded, submitted, trace, frame, response>>

-----------------------------------------------------------------------------
(* Bounds of the model *)

MaxReadings == 3
MaxInserts == 3
MaxDelivered == 2

-----------------------------------------------------------------------------
(* Values *)

\* Python None for a session id (ids of the store are 1, 2, ...)
NoneId == 0
\* Python None for a session key (`not session_key` is true for it)
NoKey == "None"
\* the -1 find_device returns
NotFound == "-1"
\* address and characteristic of the peripheral BLT_M70C
DeviceAddr == "addr"
NotifyChar == "char-notify"

\* session keys str(uuid.uuid4())[:6].upper() can produce
Keys == {"AB12CD", "0F3A9B"}

\* raw[k] of Python (0-based)
At(raw, k) == raw[k + 1]

\* a frame of the given length, zero except bytes 15..18
Frame(len, b15, b16, b17, b18) ==
  [i \in 1..len |-> CASE i = 16 -> b15
                      [] i = 17 -> b16
                      [] i = 18 -> b17
                      [] i = 19 -> b18
                      [] OTHER -> 0]

\* bytes 15, 16, 17, 18 of the frames the peripheral sends in this model
Quads == { <<0, 10, 72, 255>>,      \* a reading
           <<0, 200, 72, 255>>,     \* a reading
           <<255, 127, 255, 255>>,  \* no-signal pattern, marked valid
           <<255, 127, 255, 0>>,    \* no-signal pattern, not marked valid
           <<0, 10, 72, 0>> }       \* not marked valid

Frames == { Frame(l, q[1], q[2], q[3], q[4]) : l \in {18, 19, 20}, q \in Quads }

\* frames of every shape the callback tells apart: too short, exactly long
\* enough and longer; each of bytes 15..17 with and without its no-signal
\* value; byte 18 with and without the marker
WideFrames ==
  { Frame(l, b15, b16, b17, b18) :
      l \in {0, 18, 19, 20}, b15 \in {0, 255}, b16 \in {10, 127},
      b17 \in {72, 255}, b18 \in {0, 254, 255} }

-----------------------------------------------------------------------------
(* notification_handler *)

Decodes_AnySentinelByte(raw) ==
  /\ ~(Len(raw) < 19)
  /\ At(raw, 18) = 255
  /\ ~(At(raw, 15) = 255 \/ At(raw, 16) = 127 \/ At(raw, 17) = 255)

Decodes_NoSentinelTest(raw) ==
  /\ ~(Len(raw) < 19)
  /\ At(raw, 18) = 255

\* lines 82-86: the frame yields a reading
Decodes(raw) ==
  /\ ~(Len(raw) < 19)
  /\ At(raw, 18) = 255
  /\ ~(At(raw, 15) = 255 /\ At(raw, 16) = 127 /\ At(raw, 17) = 255)

ReadingOf_Untagged(raw, sid, ts, n) ==
  [session_id |-> NoneId, timestamp |-> ts, spo2 |-> At(raw, 16),
   pulse |-> At(raw, 17), seq |-> n]

\* lines 87-95: the dict appended; seq is a history field (the delivery index
\* of the frame), it is not in the code
ReadingOf(raw, sid, ts, n) ==
  [session_id |-> sid, timestamp |-> ts, spo2 |-> At(raw, 16),
   pulse |-> At(raw, 17), seq |-> n]

AppendReading_Front(buf, r) == <<r>> \o buf

\* line 90: data_buffer.append
AppendReading(buf, r) == Append(buf, r)

\* get_data has not been called
NoResponse == [status |-> 0, key |-> "", rows |-> <<>>]

-----------------------------------------------------------------------------
(* db_writer *)

WriterRunnable_AfterCancel == writer_task \in {"sleeping", "cancelled"}

\* lines 105-106: the task runs its body only when its sleep returns; a
\* cancelled task gets CancelledError at the sleep instead
WriterRunnable == writer_task = "sleeping"

\* line 107: if data_buffer
ShouldFlush(buf) == buf # <<>>

InsertRows_DropFirst(buf) == Tail(buf)

\* line 110: the rows handed to insert()
InsertRows(buf) == buf

BufferAfterInsert_Discard(buf, ok) == <<>>

BufferAfterInsert_Keep(buf, ok) == buf

\* lines 110-114: the buffer is cleared after insert().execute() returned, and
\* left alone when it raised
BufferAfterInsert(buf, ok) == IF ok THEN <<>> ELSE buf

WriterAfterInsert_Dies(ok) == IF ok THEN "sleeping" ELSE "failed"

\* lines 105, 113-114: the exception is caught inside the loop
WriterAfterInsert(ok) == "sleeping"

-----------------------------------------------------------------------------
(* persistence service and session endpoint *)

\* app.py lines 29-32: insert into sessions; the store assigns the id
CreateSession(tbl, k) == Append(tbl, [id |-> Len(tbl) + 1, session_key |-> k])

\* lines 128-132 (and app.py 48-52): select id where session_key = k
SelectIds(tbl, k) == { tbl[i].id : i \in { j \in 1..Len(tbl) : tbl[j].session_key = k } }


-----------------------------------------------------------------------------
(* main: control flow after each setup step *)

AfterRequestSession_NoCheck(key) == "resolve"

\* lines 121-124: return when request_session gave no key
AfterRequestSession(key) == IF key = NoKey THEN "shutdown" ELSE "resolve"

AfterFindDevice_NoCheck(char) == "connect"

\* lines 150-153: return when find_device gave -1
AfterFindDevice(char) == IF char = NotFound THEN "shutdown" ELSE "connect"

Log(ev) == trace' = Append(trace, ev)

-----------------------------------------------------------------------------

Init ==
  /\ pc = "request_session"
  /\ session_key = NoKey
  /\ current_session_id = NoneId
  /\ DEVICE_ADDRESS = ""
  /\ CHAR_UUID = ""
  /\ probe = ""
  /\ link = "Disconnected"
  /\ subscribed = FALSE
  /\ writer_task = "none"
  /\ data_buffer = <<>>
  /\ sessions \in {<<>>, CreateSession(<<>>, "AB12CD")}
  /\ health_data = <<>>
  /\ clock = 0
  /\ decoded = <<>>
  /\ submitted = <<>>
  /\ trace = <<>>
  /\ frame = <<>>
  /\ response = NoResponse

\* request_session, lines 37-50 and 121-124, the endpoint answering with a key.
\* The endpoint writes the session to the store its own configuration names
\* (app.py lines 9-20), which is the store of this script when stored is TRUE.
RequestSessionOk ==
  /\ pc = "request_session"
  /\ \E k \in Keys, stored \in BOOLEAN :
       /\ sessions' = IF stored THEN CreateSession(sessions, k) ELSE sessions
       /\ session_key' = k
       /\ pc' = AfterRequestSession(k)
  /\ UNCHANGED <<current_session_id, DEVICE_ADDRESS, CHAR_UUID, probe, link,
                 subscribed, writer_task, data_buffer, health_data, clock,
                 decoded, submitted, trace,
                 frame, response>>

\* request_session, lines 46-50: transport error or non-success response;
\* the session may or may not have been written before the failure
RequestSessionFail ==
  /\ pc = "request_session"
  /\ \E k \in Keys, stored \in BOOLEAN :
       sessions' = IF stored THEN CreateSession(sessions, k) ELSE sessions
  /\ session_key' = NoKey
  /\ pc' = AfterRequestSession(NoKey)
  /\ UNCHANGED <<current_session_id, DEVICE_ADDRESS, CHAR_UUID, probe, link,
                 subscribed, writer_task, data_buffer, health_data, clock,
                 decoded, submitted, trace,
                 frame, response>>

\* main, lines 127-139: the select answers; session[0] is any matching row
\* (the query states no order)
ResolveSession ==
  /\ pc = "resolve"
  /\ LET ids == SelectIds(sessions, session_key) IN
       IF ids = {}
         THEN /\ pc' = "shutdown"
              /\ UNCHANGED current_session_id
         ELSE /\ \E id \in ids : current_session_id' = id
              /\ pc' = "find_device"
  /\ UNCHANGED <<session_key, DEVICE_ADDRESS, CHAR_UUID, probe, link, subscribed,
                 writer_task, data_buffer, sessions, health_data, clock, decoded,
                 submitted, trace,
                 frame, response>>

\* main, lines 140-142: the select raises
ResolveSessionError ==
  /\ pc = "resolve"
  /\ pc' = "shutdown"
  /\ UNCHANGED <<session_key, current_session_id, DEVICE_ADDRESS, CHAR_UUID, probe,
                 link, subscribed, writer_task, data_buffer, sessions, health_data,
                 clock, decoded, submitted, trace,
                 frame, response>>

\* find_device, line 56: BleakScanner.discover() starts
ScanStart ==
  /\ pc = "find_device"
  /\ link' = "Scanning"
  /\ Log("scan")
  /\ pc' = "scanning"
  /\ UNCHANGED <<session_key, current_session_id, DEVICE_ADDRESS, CHAR_UUID, probe,
                 subscribed, writer_task, data_buffer, sessions, health_data,
                 clock, decoded, submitted,
                 frame, response>>

\* find_device, lines 56-65, and main, lines 150-153: the scan returns
ScanDone ==
  /\ pc = "scanning"
  /\ link' = "Disconnected"
  /\ \E found \in BOOLEAN :
       /\ DEVICE_ADDRESS' = IF found THEN DeviceAddr ELSE DEVICE_ADDRESS
       /\ IF DEVICE_ADDRESS' = ""
            THEN /\ CHAR_UUID' = NotFound
                 /\ pc' = AfterFindDevice(NotFound)
            ELSE /\ UNCHANGED CHAR_UUID
                 /\ pc' = "probe_connect"
  /\ UNCHANGED <<session_key, current_session_id, probe, subscribed, writer_task,
                 data_buffer, sessions, health_data, clock, decoded, submitted, trace,
                 frame, response>>

\* find_device, lines 67-74: the transient connection is made and the
\* characteristics are walked; a failing connect raises out of main
ProbeConnect ==
  /\ pc = "probe_connect"
  /\ \/ /\ link' = "Connected"
        /\ Log("connect")
        /\ probe' \in {NotifyChar, NotFound}
        /\ pc' = "probe_close"
     \/ /\ pc' = "shutdown"
        /\ UNCHANGED <<link, probe, trace>>
  /\ UNCHANGED <<session_key, current_session_id, DEVICE_ADDRESS, CHAR_UUID,
                 subscribed, writer_task, data_buffer, sessions, health_data,
                 clock, decoded, submitted,
                 frame, response>>

ProbeClose_Leak ==
  /\ pc = "probe_close"
  /\ CHAR_UUID' = probe
  /\ pc' = AfterFindDevice(probe)
  /\ UNCHANGED <<session_key, current_session_id, DEVICE_ADDRESS, probe, subscribed,
                 writer_task, data_buffer, sessions, health_data, clock, decoded,
                 submitted, link, trace,
                 frame, response>>

\* find_device, line 67 (exit of async with), and main, lines 150-153
ProbeClose ==
  /\ pc = "probe_close"
  /\ link' = "Disconnected"
  /\ Log("disconnect")
  /\ CHAR_UUID' = probe
  /\ pc' = AfterFindDevice(probe)
  /\ UNCHANGED <<session_key, current_session_id, DEVICE_ADDRESS, probe, subscribed,
                 writer_task, data_buffer, sessions, health_data, clock, decoded,
                 submitted,
                 frame, response>>

\* main, line 157: the persistent connection; a failing connect raises
Connect ==
  /\ pc = "connect"
  /\ \/ /\ link' = "Connected"
        /\ Log("connect")
        /\ pc' = "start_notify"
     \/ /\ pc' = "shutdown"
        /\ UNCHANGED <<link, trace>>
  /\ UNCHANGED <<session_key, current_session_id, DEVICE_ADDRESS, CHAR_UUID, probe,
                 subscribed, writer_task, data_buffer, sessions, health_data,
                 clock, decoded, submitted,
                 frame, response>>

\* main, lines 159-166: start_notify returns, the flush task is created and
\* main waits; when start_notify raises, async with closes the connection
StartNotify ==
  /\ pc = "start_notify"
  /\ \/ /\ subscribed' = TRUE
        /\ writer_task' = "sleeping"
        /\ Log("subscribe")
        /\ pc' = "wait"
     \/ /\ pc' = "aexit"
        /\ UNCHANGED <<subscribed, writer_task, trace>>
  /\ UNCHANGED <<session_key, current_session_id, DEVICE_ADDRESS, CHAR_UUID, probe,
                 link, data_buffer, sessions, health_data, clock, decoded,
                 submitted,
                 frame, response>>

\* main, lines 166-168: the cancellation signal ends the wait
Signal ==
  /\ pc = "wait"
  /\ Log("signal")
  /\ pc' = "stop_notify"
  /\ UNCHANGED <<session_key, current_session_id, DEVICE_ADDRESS, CHAR_UUID, probe,
                 link, subscribed, writer_task, data_buffer, sessions, health_data,
                 clock, decoded, submitted,
                 frame, response>>

\* main, lines 170-172: stop_notify returns and writer_task.cancel() follows
\* without a suspension point in between
StopNotifyOk ==
  /\ pc = "stop_notify"
  /\ subscribed' = FALSE
  /\ writer_task' = "cancelled"
  /\ trace' = trace \o <<"unsubscribe", "cancel">>
  /\ pc' = "aexit"
  /\ UNCHANGED <<session_key, current_session_id, DEVICE_ADDRESS, CHAR_UUID, probe,
                 link, data_buffer, sessions, health_data, clock, decoded,
                 submitted,
                 frame, response>>

\* main, line 170: stop_notify raises; lines 171-172 are skipped and the
\* exception leaves through async with
StopNotifyFail ==
  /\ pc = "stop_notify"
  /\ Log("unsubscribe_failed")
  /\ pc' = "aexit"
  /\ UNCHANGED <<session_key, current_session_id, DEVICE_ADDRESS, CHAR_UUID, probe,
                 link, subscribed, writer_task, data_buffer, sessions, health_data,
                 clock, decoded, submitted,
                 frame, response>>

\* main, line 157: exit of async with BleakClient, the disconnect
Aexit ==
  /\ pc = "aexit"
  /\ link' = "Disconnected"
  /\ subscribed' = FALSE
  /\ Log("disconnect")
  /\ pc' = "shutdown"
  /\ UNCHANGED <<session_key, current_session_id, DEVICE_ADDRESS, CHAR_UUID, probe,
                 writer_task, data_buffer, sessions, health_data, clock, decoded,
                 submitted,
                 frame, response>>

\* line 176: main has ended and asyncio.run cancels the tasks still pending
RunShutdown ==
  /\ pc = "shutdown"
  /\ IF writer_task = "sleeping"
       THEN /\ writer_task' = "cancelled"
            /\ Log("cancel")
       ELSE UNCHANGED <<writer_task, trace>>
  /\ pc' = "done"
  /\ UNCHANGED <<session_key, current_session_id, DEVICE_ADDRESS, CHAR_UUID, probe,
                 link, subscribed, data_buffer, sessions, health_data, clock,
                 decoded, submitted,
                 frame, response>>

NotifyFrame_WriteThrough(raw) ==
  /\ IF Decodes(raw)
       THEN /\ Len(decoded) < MaxReadings
            /\ LET r == ReadingOf(raw, current_session_id, clock, Len(decoded) + 1) IN
                 /\ data_buffer' = AppendReading(data_buffer, r)
                 /\ decoded' = Append(decoded, r)
                 /\ health_data' = Append(health_data, r)
                 /\ clock' = clock + 1
       ELSE UNCHANGED <<data_buffer, decoded, clock, health_data>>
  /\ UNCHANGED <<pc, session_key, current_session_id, DEVICE_ADDRESS, CHAR_UUID,
                 probe, link, subscribed, writer_task, sessions,
                 submitted, trace, response>>

\* notification_handler, lines 77-98, called with the frame raw.  The clock
\* read at line 89 is taken to move on by one from one reading to the next.
NotifyFrame(raw) ==
  /\ IF Decodes(raw)
       THEN /\ Len(decoded) < MaxReadings
            /\ LET r == ReadingOf(raw, current_session_id, clock, Len(decoded) + 1) IN
                 /\ data_buffer' = AppendReading(data_buffer, r)
                 /\ decoded' = Append(decoded, r)
                 /\ clock' = clock + 1
       ELSE UNCHANGED <<data_buffer, decoded, clock>>
  /\ UNCHANGED <<pc, session_key, current_session_id, DEVICE_ADDRESS, CHAR_UUID,
                 probe, link, subscribed, writer_task, sessions, health_data,
                 submitted, trace, response>>

\* line 159: the link calls the callback for a frame of the peripheral
Notify ==
  /\ subscribed
  /\ link = "Connected"
  /\ \E raw \in Frames : NotifyFrame(raw)
  /\ UNCHANGED frame

\* db_writer, lines 105-114: one wake of the flush task.  insert().execute()
\* is a blocking call, so nothing runs between line 107 and line 114.
DbWriterWake ==
  /\ WriterRunnable
  /\ IF ShouldFlush(data_buffer)
       THEN \E ok \in BOOLEAN :
                 LET rows == InsertRows(data_buffer) IN
                   /\ ok \/ Len(submitted) < MaxInserts
                   /\ submitted' = Append(submitted, [rows |-> rows, ok |-> ok])
                   /\ health_data' = IF ok THEN health_data \o rows ELSE health_data
                   /\ data_buffer' = BufferAfterInsert(data_buffer, ok)
                   /\ writer_task' = WriterAfterInsert(ok)
       ELSE UNCHANGED <<submitted, health_data, data_buffer, writer_task>>
  /\ UNCHANGED <<pc, session_key, current_session_id, DEVICE_ADDRESS, CHAR_UUID,
                 probe, link, subscribed, sessions, clock, decoded, trace,
                 frame, response>>

Next ==
  \/ RequestSessionOk
  \/ RequestSessionFail
  \/ ResolveSession
  \/ ResolveSessionError
  \/ ScanStart
  \/ ScanDone
  \/ ProbeConnect
  \/ ProbeClose
  \/ Connect
  \/ StartNotify
  \/ Signal
  \/ StopNotifyOk
  \/ StopNotifyFail
  \/ Aexit
  \/ RunShutdown
  \/ Notify
  \/ DbWriterWake

Spec == Init /\ [][Next]_vars

-----------------------------------------------------------------------------
(* The callback on frames of every shape, from the steady state *)

\* a reading decoded before the frames under observation
EarlierReading == ReadingOf(Frame(19, 0, 10, 72, 255), 1, 0, 1)

\* main waits at line 166: session resolved, link subscribed, flush task
\* sleeping, the buffer empty or holding one reading
InitDecode ==
  /\ pc = "wait"
  /\ session_key = "AB12CD"
  /\ current_session_id = 1
  /\ DEVICE_ADDRESS = DeviceAddr
  /\ CHAR_UUID = NotifyChar
  /\ probe = NotifyChar
  /\ link = "Connected"
  /\ subscribed = TRUE
  /\ writer_task = "sleeping"
  /\ sessions = CreateSession(<<>>, "AB12CD")
  /\ health_data = <<>>
  /\ \E n \in {0, 1} :
       /\ decoded = IF n = 0 THEN <<>> ELSE <<EarlierReading>>
       /\ data_buffer = decoded
       /\ clock = n
  /\ submitted = <<>>
  /\ trace = <<"scan", "connect", "disconnect", "connect", "subscribe">>
  /\ frame = <<>>
  /\ response = NoResponse

\* line 159: the link calls the callback for any frame
Deliver ==
  /\ subscribed
  /\ link = "Connected"
  /\ Len(decoded) < MaxDelivered
  /\ \E raw \in WideFrames :
       /\ NotifyFrame(raw)
       /\ frame' = raw

NextDecode ==
  \/ Deliver
  \/ DbWriterWake

SpecDecode == InitDecode /\ [][NextDecode]_vars

-----------------------------------------------------------------------------
(* the steady state of a run that is never cancelled: main stays at line 166 *)

\* db_writer, line 110: an insert that the persistence service accepts
FlushOk ==
  /\ DbWriterWake
  /\ ShouldFlush(data_buffer)
  /\ health_data' = health_data \o InsertRows(data_buffer)

NextLive ==
  \/ Notify
  \/ DbWriterWake

\* the flush task wakes every second (line 105) and the persistence service
\* does not reject inserts forever
SpecLive ==
  /\ InitDecode
  /\ [][NextLive]_vars
  /\ WF_vars(DbWriterWake)
  /\ SF_vars(FlushOk)

-----------------------------------------------------------------------------
(* get_data of the retrieval surface, on any content of the store *)

\* app.py line 64: limit(50)
RowLimit == 50

MinOf(S) == CHOOSE x \in S : \A y \in S : x <= y
MaxOf(S) == CHOOSE x \in S : \A y \in S : x >= y

\* a sequence without its k-th element
Without(rows, k) == SubSeq(rows, 1, k - 1) \o SubSeq(rows, k + 1, Len(rows))

\* rows by timestamp descending; the store is free in the order of rows of
\* equal timestamp, tie says which of them it puts first
RECURSIVE SortDesc(_, _)
SortDesc(rows, tie) ==
  IF rows = <<>> THEN <<>>
  ELSE LET top == MaxOf({ rows[i].timestamp : i \in 1..Len(rows) })
           at == { i \in 1..Len(rows) : rows[i].timestamp = top }
           k == IF tie = "first" THEN MinOf(at) ELSE MaxOf(at)
       IN  <<rows[k]>> \o SortDesc(Without(rows, k), tie)

Reversed(rows) == [i \in 1..Len(rows) |-> rows[Len(rows) + 1 - i]]

OrderByTimestamp_Ascending(rows, tie) == Reversed(SortDesc(rows, tie))

\* app.py line 63: order('timestamp', desc=True)
OrderByTimestamp(rows, tie) == SortDesc(rows, tie)

Limited_OnePast(rows) == SubSeq(rows, 1, IF Len(rows) <= RowLimit THEN Len(rows) ELSE RowLimit + 1)

\* app.py line 64: limit(50)
Limited(rows) == SubSeq(rows, 1, IF Len(rows) <= RowLimit THEN Len(rows) ELSE RowLimit)

OfSession(r, id) == r.session_id = id

\* app.py lines 60-65: the rows of the session, newest first, at most 50
HealthDataOf(tbl, id, tie) ==
  LET mine == SelectSeq(tbl, LAMBDA r : OfSession(r, id))
  IN  Limited(OrderByTimestamp(mine, tie))

\* the keys a viewer asks for: keys of sessions and a key of none
QueryKeys == Keys \cup {"FFFFFF"}

\* contents of table sessions
StoreSessions ==
  { <<>>,
    CreateSession(<<>>, "AB12CD"),
    CreateSession(CreateSession(<<>>, "AB12CD"), "0F3A9B"),
    CreateSession(CreateSession(<<>>, "AB12CD"), "AB12CD") }

\* a content of table health_data: n rows, the sessions and the timestamps
\* following a pattern
StoreRows(n, owner, times) ==
  [i \in 1..n |->
     [session_id |-> IF owner = "one" THEN 1 ELSE 1 + (i % 2),
      timestamp |-> CASE times = "rising" -> i
                      [] times = "falling" -> n - i
                      [] times = "equal" -> 7
                      [] times = "pairs" -> i \div 2
                      [] OTHER -> (i * 7) % 5,
      spo2 |-> 98, pulse |-> 72, seq |-> i]]

\* contents of table health_data around the limit of 50 rows a session
StoreHealthData ==
  { StoreRows(n, owner, times) :
      n \in {0, 1, 3, RowLimit - 1, RowLimit, RowLimit + 1, RowLimit + 3,
             2 * RowLimit + 2},
      owner \in {"one", "two"},
      times \in {"rising", "falling", "equal", "pairs", "mixed"} }

\* the backend is up, the store holds any content, no ingestion run is active
InitStore ==
  /\ pc = "request_session"
  /\ session_key = NoKey
  /\ current_session_id = NoneId
  /\ DEVICE_ADDRESS = ""
  /\ CHAR_UUID = ""
  /\ probe = ""
  /\ link = "Disconnected"
  /\ subscribed = FALSE
  /\ writer_task = "none"
  /\ data_buffer = <<>>
  /\ sessions \in StoreSessions
  /\ health_data \in StoreHealthData
  /\ clock = 0
  /\ decoded = <<>>
  /\ submitted = <<>>
  /\ trace = <<>>
  /\ frame = <<>>
  /\ response = NoResponse

\* get_data, app.py lines 42-67: the store answers both selects; session[0]
\* is any matching row (the query states no order)
GetData ==
  /\ \E k \in QueryKeys :
       LET ids == SelectIds(sessions, k) IN
         IF ids = {}
           THEN response' = [status |-> 404, key |-> k, rows |-> <<>>]
           ELSE \E id \in ids, tie \in {"first", "last"} :
                  response' = [status |-> 200, key |-> k,
                               rows |-> HealthDataOf(health_data, id, tie)]
  /\ UNCHANGED <<pc, session_key, current_session_id, DEVICE_ADDRESS, CHAR_UUID,
                 probe, link, subscribed, writer_task, data_buffer, sessions,
                 health_data, clock, decoded, submitted, trace, frame>>

\* get_data, app.py lines 68-70: a select raises and the request is aborted
GetDataError ==
  /\ \E k \in QueryKeys : response' = [status |-> 500, key |-> k, rows |-> <<>>]
  /\ UNCHANGED <<pc, session_key, current_session_id, DEVICE_ADDRESS, CHAR_UUID,
                 probe, link, subscribed, writer_task, data_buffer, sessions,
                 health_data, clock, decoded, submitted, trace, frame>>

NextStore ==
  \/ GetData
  \/ GetDataError

SpecStore == InitStore /\ [][NextStore]_vars

-----------------------------------------------------------------------------
(* Vocabulary of the properties *)

\* the event is in the run's trace
InTrace(ev) == \E i \in 1..Len(trace) : trace[i] = ev

\* the delivery indices of the readings of a sequence
Seqs(rows) == { rows[i].seq : i \in 1..Len(rows) }

\* the readings are in delivery order
Increasing(rows) == \A i, j \in 1..Len(rows) : i < j => rows[i].seq < rows[j].seq

IsPrefix(a, b) == Len(a) <= Len(b) /\ a = SubSeq(b, 1, Len(a))

\* the inserts that failed, and those that succeeded
Failed == { i \in 1..Len(submitted) : ~submitted[i].ok }
Succeeded == { i \in 1..Len(submitted) : submitted[i].ok }

\* the four setup steps have succeeded
SetupOk ==
  /\ session_key # NoKey
  /\ current_session_id # NoneId
  /\ DEVICE_ADDRESS # ""
  /\ CHAR_UUID \notin {"", NotFound}

-----------------------------------------------------------------------------
\* C1: in every reachable state the rows persisted so far followed by
\* data_buffer are exactly the readings decoded so far, in decode order: the
\* buffer holds exactly the readings decoded since the last successful flush,
\* a successful flush removes what it persisted and nothing else removes a
\* reading.
C1_BufferIsUnflushedReadings == health_data \o data_buffer = decoded

\* a failed flush and a successful one have happened and readings are waiting
C1_Witness ==
  /\ Failed # {}
  /\ Succeeded # {}
  /\ data_buffer # <<>>

-----------------------------------------------------------------------------
\* C2 as stated: no reading is contained in two different submitted batches,
\* failed inserts included.
C2_NoReadingInTwoSubmittedBatches ==
  \A i, j \in 1..Len(submitted) :
    i # j => Seqs(submitted[i].rows) \cap Seqs(submitted[j].rows) = {}

\* C2 amended: every decoded reading is either still in the buffer or in
\* exactly one successfully inserted batch, never both and never neither; a
\* reading of a failed batch stays in the buffer (and is submitted again).
C2_NoLossNoDoublePersist ==
  /\ \A n \in 1..Len(decoded) :
       \/ /\ n \in Seqs(data_buffer)
          /\ \A i \in Succeeded : n \notin Seqs(submitted[i].rows)
       \/ /\ n \notin Seqs(data_buffer)
          /\ Cardinality({ i \in Succeeded : n \in Seqs(submitted[i].rows) }) = 1
  /\ \A i \in Failed : \A n \in Seqs(submitted[i].rows) :
       n \in Seqs(data_buffer) \/ \E j \in Succeeded : j > i /\ n \in Seqs(submitted[j].rows)

\* appends on both sides of a failed drain and of a successful one
C2_Witness ==
  \E i, j \in 1..Len(submitted) :
    /\ i < j
    /\ ~submitted[i].ok
    /\ submitted[j].ok
    /\ Len(submitted[j].rows) > Len(submitted[i].rows)
    /\ data_buffer # <<>>

-----------------------------------------------------------------------------
\* C3 as stated: the readings of a batch whose insert failed are no longer in
\* the buffer.
C3_FailedBatchDiscarded ==
  \A i \in Failed : Seqs(submitted[i].rows) \cap Seqs(data_buffer) = {}

\* C3 amended: a batch whose insert failed is kept: its readings stay at the
\* head of the buffer, and the next insert submits them again, ahead of the
\* readings decoded since.
C3_FailedBatchKeptAndResubmitted ==
  \A i \in Failed :
    IF i = Len(submitted)
      THEN IsPrefix(submitted[i].rows, data_buffer)
      ELSE IsPrefix(submitted[i].rows, submitted[i + 1].rows)

\* an insert failed, a reading arrived, and the next cycle has submitted again
C3_Witness ==
  /\ Len(submitted) >= 2
  /\ ~submitted[1].ok
  /\ Len(submitted[2].rows) > Len(submitted[1].rows)

-----------------------------------------------------------------------------
\* C4: once an insert has failed, and until the cancellation signal arrives,
\* main is still waiting, the flush task is alive at its sleep and the
\* subscription is active on the open connection.
C4_FailureDoesNotEndRun ==
  (Failed # {} /\ ~InTrace("signal")) =>
    /\ pc = "wait"
    /\ writer_task = "sleeping"
    /\ WriterRunnable
    /\ subscribed
    /\ link = "Connected"

\* after a failed insert a reading was appended and a later cycle flushed it
C4_Witness ==
  /\ ~InTrace("signal")
  /\ \E i \in Failed : \E j \in Succeeded :
       /\ j > i
       /\ \E n \in Seqs(submitted[j].rows) : n \notin Seqs(submitted[i].rows)

-----------------------------------------------------------------------------
\* C5: a subscription, a flush task, an insert into health_data or the
\* steady-state part of main exist only when all four setup steps succeeded,
\* and the scan is started only with a session key and a session id.
C5_SetupFailureAborts ==
  /\ (\/ InTrace("subscribe")
      \/ subscribed
      \/ writer_task # "none"
      \/ submitted # <<>>
      \/ health_data # <<>>
      \/ pc \in {"connect", "start_notify", "wait", "stop_notify", "aexit"}) => SetupOk
  /\ (InTrace("scan") \/ link # "Disconnected") =>
       (session_key # NoKey /\ current_session_id # NoneId)

\* the run has ended because the peripheral has no notifiable channel
C5_Witness ==
  /\ pc = "done"
  /\ DEVICE_ADDRESS = DeviceAddr
  /\ CHAR_UUID = NotFound
  /\ ~InTrace("subscribe")
  /\ writer_task = "none"

-----------------------------------------------------------------------------
\* the events of the run after the cancellation signal
AfterSignal ==
  LET at == CHOOSE i \in 1..Len(trace) : trace[i] = "signal"
  IN  SubSeq(trace, at + 1, Len(trace))

\* C6: when the cancellation signal arrived during the steady-state wait,
\* the run ends having performed unsubscribe, then the cancellation of the
\* flush task, then disconnect, in exactly that order.
C6_TeardownOrder ==
  (pc = "done" /\ InTrace("signal")) =>
    AfterSignal = <<"unsubscribe", "cancel", "disconnect">>

-----------------------------------------------------------------------------
\* C7: once the flush task is cancelled no step inserts into health_data:
\* no insert is attempted, no row is persisted, and the buffer keeps the
\* readings it held (no final flush).
C7_NoFlushAfterCancel ==
  [][writer_task = "cancelled" =>
       /\ submitted' = submitted
       /\ health_data' = health_data
       /\ data_buffer' = data_buffer
       /\ writer_task' = "cancelled"]_vars

\* the run has ended with the flush task cancelled and readings unflushed
C7_Witness ==
  /\ pc = "done"
  /\ writer_task = "cancelled"
  /\ data_buffer # <<>>
  /\ Succeeded # {}

-----------------------------------------------------------------------------
\* C8 as stated: every insert is one insert of all the readings in the buffer,
\* in buffer order, and the buffer is empty immediately after it; a step from
\* an empty buffer makes no insert.
C8_EveryFlushEmptiesBuffer ==
  [][/\ submitted' # submitted =>
          /\ Len(submitted') = Len(submitted) + 1
          /\ SubSeq(submitted', 1, Len(submitted)) = submitted
          /\ submitted'[Len(submitted')].rows = data_buffer
          /\ data_buffer' = <<>>
     /\ data_buffer = <<>> => submitted' = submitted]_vars

\* C8 amended: every wake with a non-empty buffer makes exactly one insert of
\* all the readings in the buffer, in buffer order; the buffer is empty
\* immediately after when the insert succeeded and unchanged when it failed;
\* rows reach health_data only through a successful insert; a step from an
\* empty buffer makes no insert.
C8_FlushSubmitsWholeBuffer ==
  [][/\ submitted' # submitted =>
          /\ data_buffer # <<>>
          /\ \E ok \in BOOLEAN :
               /\ submitted' = Append(submitted, [rows |-> data_buffer, ok |-> ok])
               /\ data_buffer' = IF ok THEN <<>> ELSE data_buffer
               /\ health_data' = IF ok THEN health_data \o data_buffer ELSE health_data
     /\ submitted' = submitted => health_data' = health_data
     /\ data_buffer = <<>> => submitted' = submitted]_vars

\* R1, R2, R3 were appended and one wake has inserted exactly <<R1, R2, R3>>
C8_Witness ==
  /\ Len(submitted) = 1
  /\ submitted[1].ok
  /\ submitted[1].rows = decoded
  /\ Len(decoded) = 3
  /\ health_data = decoded
  /\ data_buffer = <<>>

-----------------------------------------------------------------------------
\* C9: readings are in delivery order in the buffer, in every submitted
\* batch and in the persisted rows (so a reading delivered earlier is never
\* in a later successful batch), and every persisted row was delivered before
\* every reading still in the buffer.
C9_DeliveryOrderPreserved ==
  /\ Increasing(data_buffer)
  /\ Increasing(health_data)
  /\ \A i \in 1..Len(submitted) : Increasing(submitted[i].rows)
  /\ \A a \in Seqs(health_data) : \A b \in Seqs(data_buffer) : a < b
  /\ \A i, j \in Succeeded :
       i < j => \A a \in Seqs(submitted[i].rows) : \A b \in Seqs(submitted[j].rows) : a < b

\* two successful batches and a reading still waiting
C9_Witness ==
  /\ Cardinality(Succeeded) >= 2
  /\ Len(health_data) >= 2
  /\ data_buffer # <<>>

-----------------------------------------------------------------------------
\* the readings in the buffer and the rows of every submitted batch carry the
\* resolved session id, and a subscription exists only with a resolved id
SessionTagged ==
  /\ (subscribed \/ InTrace("subscribe")) => current_session_id # NoneId
  /\ \A i \in 1..Len(data_buffer) :
       /\ data_buffer[i].session_id # NoneId
       /\ data_buffer[i].session_id = current_session_id
  /\ \A b \in 1..Len(submitted) : \A i \in 1..Len(submitted[b].rows) :
       /\ submitted[b].rows[i].session_id # NoneId
       /\ submitted[b].rows[i].session_id = current_session_id
  /\ \A i \in 1..Len(health_data) : health_data[i].session_id = current_session_id

\* C10: the session id is resolved before the subscription is made, once
\* resolved it never changes, and every reading in the buffer and every row
\* submitted carries that id, which is not None.
C10_SessionIdStable ==
  /\ []SessionTagged
  /\ [][current_session_id # NoneId => current_session_id' = current_session_id]_vars

\* rows were persisted and readings wait under the id of a session that is
\* not the first of the store
C10_Witness ==
  /\ current_session_id = 2
  /\ health_data # <<>>
  /\ data_buffer # <<>>

-----------------------------------------------------------------------------
\* the step is a call of the callback (with the frame frame')
DeliveryStep == frame' # frame \/ decoded' # decoded

\* the frame has at least 19 bytes, byte 18 is 255 and bytes 15..17 are not
\* (255, 127, 255)
IsReadingFrame(raw) ==
  /\ Len(raw) >= 19
  /\ raw[19] = 255
  /\ <<raw[16], raw[17], raw[18]>> # <<255, 127, 255>>

\* C11: a call of the callback with a frame of at least 19 bytes whose byte
\* 18 is 255 and whose bytes 15..17 are not (255, 127, 255) appends exactly
\* one reading to the end of the buffer, with spo2 = byte 16 and pulse =
\* byte 17.
C11_ReadingFrameAppendsOne ==
  [][(DeliveryStep /\ IsReadingFrame(frame')) =>
       /\ Len(data_buffer') = Len(data_buffer) + 1
       /\ SubSeq(data_buffer', 1, Len(data_buffer)) = data_buffer
       /\ data_buffer'[Len(data_buffer')].spo2 = frame'[17]
       /\ data_buffer'[Len(data_buffer')].pulse = frame'[18]]_vars

\* bytes 15, 16, 17, 18 = 0, 10, 72, 255 gave spo2 10 and pulse 72, behind an
\* earlier reading
C11_Witness ==
  /\ Len(frame) = 19
  /\ <<frame[16], frame[17], frame[18], frame[19]>> = <<0, 10, 72, 255>>
  /\ Len(data_buffer) = 2
  /\ data_buffer[2].spo2 = 10
  /\ data_buffer[2].pulse = 72

-----------------------------------------------------------------------------
\* C12: a call of the callback with a frame shorter than 19 bytes, or whose
\* byte 18 is not 255, or whose byte 18 is 255 and bytes 15..17 are
\* (255, 127, 255), leaves the buffer as it is and the run as it is: main
\* still waits, the subscription and the flush task are alive.
C12_OtherFrameAppendsNothing ==
  [][(DeliveryStep /\ ~IsReadingFrame(frame')) =>
       /\ data_buffer' = data_buffer
       /\ decoded' = decoded
       /\ pc' = pc /\ pc' = "wait"
       /\ subscribed'
       /\ writer_task' = "sleeping"]_vars

\* the no-signal pattern, marked valid, was delivered and the buffer still
\* holds only the earlier reading
C12_Witness ==
  /\ Len(frame) >= 19
  /\ <<frame[16], frame[17], frame[18], frame[19]>> = <<255, 127, 255, 255>>
  /\ data_buffer = <<EarlierReading>>
  /\ decoded = <<EarlierReading>>

-----------------------------------------------------------------------------
\* C13: every reading in the buffer or in a submitted batch has spo2 within
\* 0..100.
C13_Spo2InRange ==
  /\ \A i \in 1..Len(data_buffer) : data_buffer[i].spo2 \in 0..100
  /\ \A b \in 1..Len(submitted) : \A i \in 1..Len(submitted[b].rows) :
       submitted[b].rows[i].spo2 \in 0..100

-----------------------------------------------------------------------------
\* C14: no two sessions of the session store have the same session_key.
C14_SessionKeysUnique ==
  \A i, j \in 1..Len(sessions) :
    i # j => sessions[i].session_key # sessions[j].session_key

-----------------------------------------------------------------------------
\* the rows of health_data that belong to the session id
RowsOfSession(id) ==
  { health_data[i].seq : i \in { j \in 1..Len(health_data) : health_data[j].session_id = id } }

\* C15: when the store answers, get_data returns not-found exactly when no
\* session has the key; otherwise it returns rows of health_data, at most 50
\* (50 when the session has more), all of one session that has the key,
\* ordered by timestamp descending, and no omitted row of that session has a
\* timestamp greater than a returned one.
C15_GetDataNewestFifty ==
  (response # NoResponse /\ response.status # 500) =>
    LET ids == { sessions[i].id : i \in { j \in 1..Len(sessions) :
                                           sessions[j].session_key = response.key } }
        rows == response.rows
    IN  IF ids = {}
          THEN response.status = 404
          ELSE /\ response.status = 200
               /\ Len(rows) <= 50
               /\ \E id \in ids :
                    /\ \A i \in 1..Len(rows) : rows[i].session_id = id
                    /\ \A i \in 1..Len(rows) : \E j \in 1..Len(health_data) : rows[i] = health_data[j]
                    /\ \A i, j \in 1..Len(rows) : i # j => rows[i].seq # rows[j].seq
                    /\ \A i, j \in 1..Len(rows) : i < j => rows[i].timestamp >= rows[j].timestamp
                    /\ \A o \in 1..Len(health_data) :
                         (health_data[o].session_id = id /\ health_data[o].seq \notin Seqs(rows)) =>
                           \A i \in 1..Len(rows) : health_data[o].timestamp <= rows[i].timestamp
                    /\ Len(rows) = IF Cardinality(RowsOfSession(id)) <= 50
                                     THEN Cardinality(RowsOfSession(id)) ELSE 50

\* a session with more than 50 rows was asked for, 50 rows came back and the
\* newest of them is not the row stored last
C15_Witness ==
  /\ response.status = 200
  /\ Len(response.rows) = 50
  /\ \E id \in {1, 2} : Cardinality(RowsOfSession(id)) > 50
  /\ response.rows[1].seq # Len(health_data)
  /\ response.rows[1].timestamp > response.rows[50].timestamp

-----------------------------------------------------------------------------
\* the events the step adds to the trace
NewEvents == { trace'[i] : i \in (Len(trace) + 1)..Len(trace') }

\* C16 as stated: the link only moves Disconnected -> Scanning ->
\* Connected -> Disconnected.
C16_LinkChain ==
  [][link' # link =>
       <<link, link'>> \in { <<"Disconnected", "Scanning">>,
                             <<"Scanning", "Connected">>,
                             <<"Connected", "Disconnected">> }]_vars

\* C16 amended: the link moves Disconnected -> Scanning -> Disconnected (the
\* scan ends before any connection) and Disconnected -> Connected ->
\* Disconnected (once for the channel discovery, without a subscription, and
\* once for the subscription); a connection is opened only after a scan that
\* found the target device, the channel is discovered only while the link is
\* Connected, and subscribe and unsubscribe happen only while it is Connected.
C16_LinkLifecycle ==
  [][/\ link' # link =>
          <<link, link'>> \in { <<"Disconnected", "Scanning">>,
                                <<"Scanning", "Disconnected">>,
                                <<"Disconnected", "Connected">>,
                                <<"Connected", "Disconnected">> }
     /\ (link' = "Connected" /\ link # "Connected") =>
          (InTrace("scan") /\ DEVICE_ADDRESS = DeviceAddr)
     /\ probe' # probe => link' = "Connected"
     /\ (subscribed' # subscribed
           \/ NewEvents \cap {"subscribe", "unsubscribe", "unsubscribe_failed"} # {}) =>
          link = "Connected"
     /\ (link = "Connected" /\ pc = "probe_close") => ~subscribed]_vars

\* a whole run: scan, transient connection, persistent connection with a
\* subscription, teardown
C16_Witness ==
  /\ pc = "done"
  /\ link = "Disconnected"
  /\ trace = <<"scan", "connect", "disconnect", "connect", "subscribe", "signal",
               "unsubscribe", "cancel", "disconnect">>

-----------------------------------------------------------------------------
\* C17: a step of the callback that decodes a reading appends it to the
\* buffer and changes nothing else: not the persisted rows, the inserts made,
\* the session store, the session key and id, the link, the subscription,
\* the flush task or main; and a step that inserts into health_data is a
\* wake of the flush task, not a step of the callback or of main.
C17_CallbackOnlyAppends ==
  [][/\ decoded' # decoded =>
          /\ data_buffer' = Append(data_buffer, decoded'[Len(decoded')])
          /\ health_data' = health_data
          /\ submitted' = submitted
          /\ sessions' = sessions
          /\ response' = response
          /\ session_key' = session_key
          /\ current_session_id' = current_session_id
          /\ link' = link
          /\ subscribed' = subscribed
          /\ writer_task' = writer_task
          /\ pc' = pc
          /\ trace' = trace
     /\ (health_data' # health_data \/ submitted' # submitted) =>
          /\ writer_task = "sleeping"
          /\ decoded' = decoded
          /\ pc' = pc
          /\ trace' = trace]_vars

\* the callback has appended two readings and the flush task has inserted
\* the first of them
C17_Witness ==
  /\ pc = "wait"
  /\ writer_task = "sleeping"
  /\ Len(decoded) = 2
  /\ health_data = <<decoded[1]>>
  /\ data_buffer = <<decoded[2]>>

-----------------------------------------------------------------------------
\* C18: in a run that is never cancelled, with a fair flush task and a
\* persistence service that does not fail forever, every reading appended to
\* the buffer is eventually among the persisted rows, also after failed
\* flush cycles.
C18_BufferedEventuallyPersisted ==
  \A n \in 1..MaxReadings :
    (n \in Seqs(data_buffer)) ~> (n \in Seqs(health_data))

\* a reading of a batch that failed is among the persisted rows
C18_Witness ==
  /\ pc = "wait"
  /\ \E i \in Failed :
       /\ submitted[i].rows # <<>>
       /\ Seqs(submitted[i].rows) \subseteq Seqs(health_data)

-----------------------------------------------------------------------------
\* the connections opened and not yet closed after the events of t
Count(t, ev) == Cardinality({ i \in 1..Len(t) : t[i] = ev })
OpenAfter(t) == Count(t, "connect") - Count(t, "disconnect")

\* C19: at every point of the run at most one connection is open (every
\* connection is opened while none is open), the link is Connected exactly
\* while one is open, and when the run has ended, on any exit path, every
\* connection that was opened has been closed.
C19_OneConnectionAllClosed ==
  /\ \A k \in 0..Len(trace) : OpenAfter(SubSeq(trace, 1, k)) \in {0, 1}
  /\ link = "Connected" <=> OpenAfter(trace) = 1
  /\ pc \in {"shutdown", "done"} => OpenAfter(trace) = 0

\* the run has ended after unsubscribe failed: both connections were closed
C19_Witness ==
  /\ pc = "done"
  /\ InTrace("unsubscribe_failed")
  /\ Count(trace, "connect") = 2
  /\ Count(trace, "disconnect") = 2

\* the other exit paths: no notifiable channel, subscribe failed, cancellation
C19_ExitChannelNotFound ==
  pc = "done" /\ CHAR_UUID = NotFound /\ Count(trace, "connect") = 1
C19_ExitSubscribeFailed ==
  pc = "done" /\ Count(trace, "connect") = 2 /\ ~InTrace("subscribe")
C19_ExitCancelled ==
  pc = "done" /\ InTrace("cancel") /\ Count(trace, "connect") = 2

=============================================================================
